---------------------------- MODULE Spec2Model ----------------------------
(***************************************************************************)
(* Model of the ZeroGate API client core (package zerogate): client        *)
(* construction (New/newClient/parseOptions), the request pipeline         *)
(* (Client.doRequest: body normalisation, signing, header merge, debug     *)
(* tracing, transport call, response classification) and Error.Error.      *)
(*                                                                         *)
(* Text is modelled as sequences of one-character strings (Go strings and  *)
(* []byte alike); []byte(s) is the map of a text to its byte codes.        *)
(***************************************************************************)
EXTENDS Integers, Sequences, FiniteSets, TLC

-----------------------------------------------------------------------------
(* Bounds of the model *)

\* Nonces (time.Now().Unix()) are drawn from NonceBase .. NonceBase+MaxNonceStep.
MaxNonceStep == 1
\* Longest option list handed to New.
MaxOpts == 2
\* Width in bytes of the modelled digest (SHA-512 has 64; the model keeps
\* the HMAC construction and shrinks the compression function).
DigestBytes == 2

\* Option setters called on the client while one doRequest call is under way.
MaxSets == 2

-----------------------------------------------------------------------------
(* Text helpers *)

\* The characters that can be hashed, in a fixed order: the index of a
\* character stands for its byte value.
Alphabet ==
    << "G", "E", "T", "P", "O", "S", "U", "D", "L",
       "/", "t", "v", "?", "x", "%", "h", ":",
       "0", "1", "2", "3", "4", "5", "6", "7", "8", "9",
       "{", "}", "\"", "n", "a", "m", "e", "N",
       "k", "y", "s", "c", "+", "-" >>

Code(ch) == CHOOSE i \in 1..Len(Alphabet) : Alphabet[i] = ch

\* []byte(s)
Bytes(s) == [i \in 1..Len(s) |-> Code(s[i])]

Digits == << "0", "1", "2", "3", "4", "5", "6", "7", "8", "9" >>

RECURSIVE DecimalNat(_)
DecimalNat(n) ==
    IF n < 10 THEN << Digits[n + 1] >>
    ELSE DecimalNat(n \div 10) \o << Digits[(n % 10) + 1] >>

\* fmt.Sprint(n) / the %d verb for an integer
Decimal(n) == IF n < 0 THEN << "-" >> \o DecimalNat(0 - n) ELSE DecimalNat(n)

DigitValue(ch) == (CHOOSE i \in 1..10 : Digits[i] = ch) - 1

IsDigit(ch) == \E i \in 1..10 : Digits[i] = ch

RECURSIVE ParseNat(_, _)
ParseNat(s, acc) ==
    IF s = << >> THEN acc
    ELSE ParseNat(Tail(s), acc * 10 + DigitValue(Head(s)))

\* s[from..] (empty when from is past the end)
Drop(s, n) == SubSeq(s, n + 1, Len(s))

Take(s, n) == SubSeq(s, 1, n)

HasPrefixAt(s, i, p) ==
    /\ i + Len(p) - 1 <= Len(s)
    /\ \A j \in 1..Len(p) : s[i + j - 1] = p[j]

\* strings.Contains / bytes.Contains for a non-empty p
Contains(s, p) == \E i \in 1..Len(s) : HasPrefixAt(s, i, p)

-----------------------------------------------------------------------------
(* HMAC and hex encoding *)

Modulus == 256 ^ DigestBytes

\* The hash function under the HMAC: a byte-wise fold (stands for SHA-512).
RECURSIVE HashFold(_, _)
HashFold(h, bs) ==
    IF bs = << >> THEN h
    ELSE HashFold((h * 33 + Head(bs)) % Modulus, Tail(bs))

Sum512(bs) == HashFold(5381 % Modulus, bs)

\* The digest as DigestBytes big-endian bytes.
RECURSIVE DigestOf(_, _)
DigestOf(v, n) ==
    IF n = 0 THEN << >>
    ELSE DigestOf(v \div 256, n - 1) \o << v % 256 >>

\* The key padded with ipad / opad (modelled as a byte-wise offset).
KeyPad(key, pad) == [i \in 1..Len(key) |-> (key[i] + pad) % 256]

\* hmac.New(sha512.New, key): the running state is the inner hash state.
hmacNew(key) == HashFold(5381 % Modulus, KeyPad(key, 54))

\* h.Write(p)
hmacWrite(h, p) == HashFold(h, p)

\* h.Sum(nil): outer hash over the padded key and the inner digest.
hmacSum(key, h) ==
    DigestOf(Sum512(KeyPad(key, 92) \o DigestOf(h, DigestBytes)), DigestBytes)

HexDigits ==
    << "0", "1", "2", "3", "4", "5", "6", "7", "8", "9",
       "a", "b", "c", "d", "e", "f" >>

\* hex.EncodeToString
RECURSIVE EncodeToString(_)
EncodeToString(bs) ==
    IF bs = << >> THEN << >>
    ELSE << HexDigits[(Head(bs) \div 16) + 1], HexDigits[(Head(bs) % 16) + 1] >>
         \o EncodeToString(Tail(bs))

\* One-shot reference: lowercase-hex HMAC of a whole message under a key.
HmacHex(secret, msg) ==
    EncodeToString(hmacSum(Bytes(secret), hmacWrite(hmacNew(Bytes(secret)), Bytes(msg))))

-----------------------------------------------------------------------------
(* Values of the program *)

MethodGet == << "G", "E", "T" >>
MethodPost == << "P", "O", "S", "T" >>
MethodPut == << "P", "U", "T" >>
MethodDelete == << "D", "E", "L", "E", "T", "E" >>

Methods == { MethodGet, MethodPost, MethodPut, MethodDelete }

\* method == http.MethodPost || method == http.MethodPut
HasBody(method) == method = MethodPost \/ method = MethodPut

\* API keys and secrets handed to New.  "+" is a character a credential may
\* hold (base64 text does) that is also a regular-expression operator.
Keys == { << >>, << "k", "y" >>, << "k", "+", "y" >> }

Secrets == { << >>, << "s", "c" >> }

\* The package constants baseUrl and userAgent (their file is not part of
\* the sources at hand; only their use in newClient is).
DefaultBaseUrl == << "http://h", "/", "v" >>

DefaultUserAgent == << "zerogate-go" >>

\* A base URL as the tests set it (server.URL: scheme and host, no path).
ServerUrl == << "http://h" >>

\* http.Header: a function from (canonical) header names to lists of values.
EmptyHeader == [k \in {} |-> << >>]

\* Header maps a caller may pass to doRequest.
CallHeaders ==
    { EmptyHeader,
      [k \in {"Authorization", "Content-Type"} |->
          IF k = "Authorization" THEN << << "Bearer x" >> >>
          ELSE << << "text/plain" >> >>],
      [k \in {"User-Agent", "X-Trace"} |->
          IF k = "User-Agent" THEN << << "caller-ua" >> >>
          ELSE << << "t1" >>, << "t2" >> >>],
      [k \in {"Content-Type"} |-> << << >> >>] }

\* Header.Get: the first value of the key, "" when absent.
HeaderGet(h, k) ==
    IF k \in DOMAIN h /\ h[k] # << >> THEN h[k][1] ELSE << >>

\* Header.Set: the key's values replaced by the single value v.
HeaderSet(h, k, v) ==
    [x \in (DOMAIN h) \cup {k} |-> IF x = k THEN << v >> ELSE h[x]]

\* Default headers a client can hold (Client.headers).  newClient starts
\* with an empty map; code of the package can fill it.
DefaultHeaders ==
    [k \in {"Content-Type", "User-Agent", "X-Trace"} |->
        CASE k = "Content-Type" -> << << "text/xml" >> >>
          [] k = "User-Agent" -> << << "default-ua" >> >>
          [] OTHER -> << << "d" >> >>]

\* Options (type Option func(*Client) error): the three the package exports,
\* one written in the package that fills the default headers, and one that
\* returns an error.
Options ==
    { [op |-> "HTTPClient", v |-> << "custom" >>],
      [op |-> "BaseURL", v |-> ServerUrl],
      [op |-> "Debug", v |-> << "true" >>],
      [op |-> "Debug", v |-> << "false" >>],
      [op |-> "Headers", v |-> << >>],
      [op |-> "Fail", v |-> << >>] }

OptionLists == UNION { [1..n -> Options] : n \in 0..MaxOpts }

\* const errEmptyCredentials
errEmptyCredentials == "API key & secret must not be empty"

\* error values are chains of wrapped errors, outermost first; nil is << >>
NilError == << >>

ErrorsIs(e, target) == \E i \in 1..Len(e) : e[i] = target

\* A Client value; made = FALSE stands for the nil *Client.
NilClient ==
    [made |-> FALSE, apiKey |-> << >>, apiSecret |-> << >>, baseUrl |-> << >>,
     debug |-> FALSE, userAgent |-> << >>, headers |-> EmptyHeader,
     httpClient |-> "nil"]

-----------------------------------------------------------------------------
(* Construction *)

\* One Option applied to a client: the client after it, and its error.
ApplyOption(c, o) ==
    CASE o.op = "HTTPClient" -> [client |-> [c EXCEPT !.httpClient = o.v[1]], err |-> NilError]
      [] o.op = "BaseURL" -> [client |-> [c EXCEPT !.baseUrl = o.v], err |-> NilError]
      [] o.op = "Debug" -> [client |-> [c EXCEPT !.debug = (o.v = << "true" >>)], err |-> NilError]
      [] o.op = "Headers" -> [client |-> [c EXCEPT !.headers = DefaultHeaders], err |-> NilError]
      [] OTHER -> [client |-> c, err |-> << "option failed" >>]

\* parseOptions going through the options from the last to the first.
RECURSIVE parseOptionsLastFirst(_, _, _)
parseOptionsLastFirst(c, opts, applied) ==
    IF opts = << >> THEN [client |-> c, err |-> NilError, applied |-> applied]
    ELSE LET r == ApplyOption(c, opts[Len(opts)])
         IN  IF r.err # NilError
             THEN [client |-> r.client, err |-> r.err, applied |-> applied + 1]
             ELSE parseOptionsLastFirst(r.client, SubSeq(opts, 1, Len(opts) - 1),
                                        applied + 1)

\* Client.parseOptions: the options in order, stopping at the first error.
\* applied counts the options that were invoked.
RECURSIVE parseOptions(_, _, _)
parseOptions(c, opts, applied) ==
    IF opts = << >> THEN [client |-> c, err |-> NilError, applied |-> applied]
    ELSE LET r == ApplyOption(c, Head(opts))
         IN  IF r.err # NilError
             THEN [client |-> r.client, err |-> r.err, applied |-> applied + 1]
             ELSE parseOptions(r.client, Tail(opts), applied + 1)

\* newClient
newClient(opts) ==
    LET c0 == [NilClient EXCEPT !.made = TRUE, !.baseUrl = DefaultBaseUrl,
                                !.userAgent = DefaultUserAgent]
        r == parseOptions(c0, opts, 0)
    IN  IF r.err # NilError
        THEN [client |-> NilClient,
              err |-> << "options parsing failed" >> \o r.err,
              applied |-> r.applied]
        ELSE [client |-> IF r.client.httpClient = "nil"
                         THEN [r.client EXCEPT !.httpClient = "DefaultClient"]
                         ELSE r.client,
              err |-> NilError, applied |-> r.applied]

\* New refusing only when both credentials are empty.
NewBothEmpty(key, secret, opts) ==
    IF key = << >> /\ secret = << >>
    THEN [client |-> NilClient, err |-> << errEmptyCredentials >>, applied |-> 0]
    ELSE LET r == newClient(opts)
         IN  IF r.err # NilError THEN r
             ELSE [r EXCEPT !.client = [r.client EXCEPT !.apiKey = key,
                                                         !.apiSecret = secret]]

\* New(key, secret, opts...): the returned (*Client, error), and how many
\* options ran.
New(key, secret, opts) ==
    IF key = << >> \/ secret = << >>
    THEN [client |-> NilClient, err |-> << errEmptyCredentials >>, applied |-> 0]
    ELSE LET r == newClient(opts)
         IN  IF r.err # NilError THEN r
             ELSE [r EXCEPT !.client = [r.client EXCEPT !.apiKey = key,
                                                         !.apiSecret = secret]]

-----------------------------------------------------------------------------
(* Request bodies *)

\* The body argument of doRequest (interface{}): nil, a []byte, an io.Reader
\* (fails: the stream reports an error before its end), a struct with one
\* string field tagged "name", or a value json.Marshal rejects (a channel).
BodyNil == [kind |-> "nil", data |-> << >>, fails |-> FALSE]

BodyValues(c) ==
    { BodyNil,
      [kind |-> "bytes", data |-> << "x" >> \o c.apiKey \o c.apiSecret, fails |-> FALSE],
      [kind |-> "reader", data |-> << "x", "x" >>, fails |-> FALSE],
      [kind |-> "reader", data |-> << "x" >>, fails |-> TRUE],
      [kind |-> "struct", data |-> << "a" >>, fails |-> FALSE],
      [kind |-> "chan", data |-> << >>, fails |-> FALSE] }

\* json.Marshal of the body value
Marshal(body) ==
    IF body.kind = "struct"
    THEN [err |-> NilError,
          bytes |-> << "{", "\"", "n", "a", "m", "e", "\"", ":", "\"" >>
                    \o body.data \o << "\"", "}" >>]
    ELSE [err |-> << "json: unsupported type" >>, bytes |-> << >>]

\* An io.Reader: its content, how far it has been read, whether reading it
\* to the end reports an error, and whether it has been closed.
NoReader == [set |-> FALSE, data |-> << >>, pos |-> 0, fails |-> FALSE, closed |-> FALSE]

NewReader(data) == [set |-> TRUE, data |-> data, pos |-> 0, fails |-> FALSE, closed |-> FALSE]

\* io.ReadAll(r): what is left of the reader, its error, and the reader after.
ReadAll(r) ==
    [bytes |-> IF r.fails THEN << >> ELSE Drop(r.data, r.pos),
     err |-> IF r.fails THEN << "unexpected EOF" >> ELSE NilError,
     after |-> [r EXCEPT !.pos = Len(r.data)]]

\* doRequest, the choice of reqBody
BodyReader(method, body) ==
    IF body.kind # "nil" /\ HasBody(method)
    THEN IF body.kind = "reader"
         THEN [err |-> NilError, r |-> [NewReader(body.data) EXCEPT !.fails = body.fails]]
         ELSE IF body.kind = "bytes"
         THEN [err |-> NilError, r |-> NewReader(body.data)]
         ELSE LET m == Marshal(body)
              IN  IF m.err # NilError
                  THEN [err |-> << "error marshalling body to JSON" >> \o m.err, r |-> NoReader]
                  ELSE [err |-> NilError, r |-> NewReader(m.bytes)]
    ELSE IF HasBody(method)
    THEN [err |-> NilError, r |-> NewReader(<< "{", "}" >>)]
    ELSE [err |-> NilError, r |-> NoReader]

\* NormalizeBody handing the request the reader it has just read to its
\* end, instead of a fresh reader over bodyBytes.
NormalizeBodyKeepsReader(method, body) ==
    LET b == BodyReader(method, body)
    IN  IF b.err # NilError
        THEN [err |-> b.err, bodyBytes |-> << >>, reqBody |-> NoReader, source |-> NoReader]
        ELSE IF HasBody(method)
        THEN LET rd == ReadAll(b.r)
             IN  IF rd.err # NilError
                 THEN [err |-> << "error reading body" >> \o rd.err, bodyBytes |-> << >>,
                       reqBody |-> NoReader, source |-> rd.after]
                 ELSE [err |-> NilError, bodyBytes |-> rd.bytes,
                       reqBody |-> rd.after, source |-> rd.after]
        ELSE [err |-> NilError, bodyBytes |-> << >>, reqBody |-> b.r, source |-> NoReader]

\* doRequest, the materialisation of the body: bodyBytes, the reader handed on
\* to the request (io.NopCloser(bytes.NewBuffer(bodyBytes))), and the caller's
\* reader as the call leaves it.
NormalizeBody(method, body) ==
    LET b == BodyReader(method, body)
    IN  IF b.err # NilError
        THEN [err |-> b.err, bodyBytes |-> << >>, reqBody |-> NoReader, source |-> NoReader]
        ELSE IF HasBody(method)
        THEN LET rd == ReadAll(b.r)
             IN  IF rd.err # NilError
                 THEN [err |-> << "error reading body" >> \o rd.err, bodyBytes |-> << >>,
                       reqBody |-> NoReader, source |-> rd.after]
                 ELSE [err |-> NilError, bodyBytes |-> rd.bytes,
                       reqBody |-> NewReader(rd.bytes), source |-> rd.after]
        ELSE [err |-> NilError, bodyBytes |-> << >>, reqBody |-> b.r, source |-> NoReader]

-----------------------------------------------------------------------------
(* URLs *)

\* Endpoints the package's callers pass: every one starts with "/".
Endpoints == { << "/", "t" >>, << "/", "%" >> }

IsHex(ch) == \E i \in 1..Len(HexDigits) : HexDigits[i] = ch

IndexOf(s, ch) ==
    IF \E i \in 1..Len(s) : s[i] = ch
    THEN CHOOSE i \in 1..Len(s) : s[i] = ch /\ \A j \in 1..(i - 1) : s[j] # ch
    ELSE 0

\* url.Parse as http.NewRequestWithContext uses it: scheme and host, then
\* the path up to "?", then the raw query.  A "%" that does not start a
\* two-digit escape is a parse error.  (No modelled input holds a valid
\* escape, so the path is the text as written.)
UrlParse(raw) ==
    LET hasHost == raw # << >> /\ raw[1] = "http://h"
        rest == IF hasHost THEN Tail(raw) ELSE raw
        q == IndexOf(rest, "?")
        path == IF q = 0 THEN rest ELSE Take(rest, q - 1)
        badEscape == \E i \in 1..Len(path) :
                        /\ path[i] = "%"
                        /\ ~(i + 2 <= Len(path) /\ IsHex(path[i + 1]) /\ IsHex(path[i + 2]))
    IN  [err |-> IF badEscape THEN << "invalid URL escape" >> ELSE NilError,
         Host |-> IF hasHost THEN << "h" >> ELSE << >>,
         Path |-> path,
         RawQuery |-> IF q = 0 THEN << >> ELSE Drop(rest, q)]

\* url.Values.Encode() of the query argument; the model passes no query.
QueryEncode == << >>

\* URL.RequestURI(): the path ("/" when empty) and the query, as written on
\* the request line.
RequestURI(u) ==
    (IF u.Path = << >> THEN << "/" >> ELSE u.Path)
    \o (IF u.RawQuery = << >> THEN << >> ELSE << "?" >> \o u.RawQuery)

-----------------------------------------------------------------------------
(* Signing *)

\* The hash state after a list of h.Write calls.
RECURSIVE hmacWrites(_, _)
hmacWrites(h, writes) ==
    IF writes = << >> THEN h
    ELSE hmacWrites(hmacWrite(h, Bytes(Head(writes))), Tail(writes))

\* Sign with the nonce put before the path in the message.
SignNonceFirst(apiSecret, method, path, now, bodyBytes) ==
    LET message == method \o Decimal(now) \o path
        writes == IF HasBody(method) THEN << message, bodyBytes >> ELSE << message >>
        h == hmacWrites(hmacNew(Bytes(apiSecret)), writes)
    IN  [fed |-> writes,
         signature |-> EncodeToString(hmacSum(Bytes(apiSecret), h))]

\* Sign writing the body bytes to the hash for every method.
SignBodyAlways(apiSecret, method, path, now, bodyBytes) ==
    LET message == method \o path \o Decimal(now)
        writes == << message, bodyBytes >>
        h == hmacWrites(hmacNew(Bytes(apiSecret)), writes)
    IN  [fed |-> writes,
         signature |-> EncodeToString(hmacSum(Bytes(apiSecret), h))]

\* doRequest, message and HMAC: the writes made to the hash, in order, and
\* the hex signature of what was written.
Sign(apiSecret, method, path, now, bodyBytes) ==
    LET message == method \o path \o Decimal(now)
        writes == IF HasBody(method) THEN << message, bodyBytes >> ELSE << message >>
        h == hmacWrites(hmacNew(Bytes(apiSecret)), writes)
    IN  [fed |-> writes,
         signature |-> EncodeToString(hmacSum(Bytes(apiSecret), h))]

\* fmt.Sprintf("APIKey=%s, Signature=%s, Nonce=%d", apiKey, signature, now)
AuthorizationValue(apiKey, signature, now) ==
    << "APIKey=" >> \o apiKey \o << ",", " ", "Signature=" >> \o signature
    \o << ",", " ", "Nonce=" >> \o Decimal(now)

-----------------------------------------------------------------------------
(* Debug tracing *)

\* const marker the dump's sensitive values are replaced by
RedactionMarker == << "[**************]" >>

\* regexp.MustCompile("(?m)" + key) for a key of literal characters and
\* "+": a "+" repeats the character before it.  The result is the list of
\* the pattern's characters, each with whether it repeats.
RECURSIVE Compile(_)
Compile(pattern) ==
    IF pattern = << >> THEN << >>
    ELSE IF Len(pattern) >= 2 /\ pattern[2] = "+"
    THEN << [ch |-> pattern[1], plus |-> TRUE] >> \o Compile(Drop(pattern, 2))
    ELSE << [ch |-> pattern[1], plus |-> FALSE] >> \o Compile(Tail(pattern))

\* The end (exclusive) of the match of items[j..] at text[i..], greedy with
\* backtracking as the regexp package matches; 0 when there is none.
RECURSIVE MatchEnd(_, _, _, _)
MatchEnd(items, j, text, i) ==
    IF j > Len(items) THEN i
    ELSE IF i > Len(text) \/ text[i] # items[j].ch THEN 0
    ELSE IF items[j].plus
    THEN LET more == MatchEnd(items, j, text, i + 1)
         IN  IF more # 0 THEN more ELSE MatchEnd(items, j + 1, text, i + 1)
    ELSE MatchEnd(items, j + 1, text, i + 1)

\* Regexp.ReplaceAll(text, repl), from position i on: the leftmost matches,
\* non-overlapping.
RECURSIVE ReplaceAllFrom(_, _, _, _)
ReplaceAllFrom(items, text, repl, i) ==
    IF i > Len(text) THEN << >>
    ELSE LET e == MatchEnd(items, 1, text, i)
         IN  IF e # 0 THEN repl \o ReplaceAllFrom(items, text, repl, e)
             ELSE << text[i] >> \o ReplaceAllFrom(items, text, repl, i + 1)

\* doRequest, the loop over sensitiveKeys: each non-empty key is compiled
\* as a pattern and its matches in the dump are replaced.
RECURSIVE Redact(_, _)
Redact(dump, sensitiveKeys) ==
    IF sensitiveKeys = << >> THEN dump
    ELSE IF Head(sensitiveKeys) = << >> THEN Redact(dump, Tail(sensitiveKeys))
    ELSE Redact(ReplaceAllFrom(Compile(Head(sensitiveKeys)), dump, RedactionMarker, 1),
                Tail(sensitiveKeys))

\* The order header lines are written in.
HeaderOrder == << "Authorization", "Content-Type", "User-Agent", "X-Echo", "X-Trace" >>

RECURSIVE ValueLines(_, _)
ValueLines(k, vs) ==
    IF vs = << >> THEN << >>
    ELSE << k, ": " >> \o Head(vs) \o << "\r\n" >> \o ValueLines(k, Tail(vs))

RECURSIVE HeaderLines(_, _)
HeaderLines(h, order) ==
    IF order = << >> THEN << >>
    ELSE (IF Head(order) \in DOMAIN h THEN ValueLines(Head(order), h[Head(order)]) ELSE << >>)
         \o HeaderLines(h, Tail(order))

\* httputil.DumpRequestOut(req, true): the request as it goes on the wire.
\* The body is read for the dump and put back (the request keeps a fresh
\* reader over the same bytes).  The dump runs the request through a
\* transport of its own, which gives up at once with the context's error
\* when the request's context is done.
DumpRequestOut(rq, ctxState) ==
    LET rd == ReadAll(rq.Body)
    IN  IF ctxState # "live"
        THEN [err |-> << ctxState >>, dump |-> << >>, req |-> rq]
        ELSE [err |-> NilError,
              dump |-> rq.Method \o << " " >> \o RequestURI(rq.URL)
                       \o << " HTTP/1.1", "\r\n", "Host: " >> \o rq.URL.Host \o << "\r\n" >>
                       \o HeaderLines(rq.Header, HeaderOrder) \o << "\r\n" >>
                       \o (IF rq.Body.set THEN rd.bytes ELSE << >>),
              req |-> IF rq.Body.set
                      THEN [rq EXCEPT !.Body = NewReader(rd.bytes)]
                      ELSE rq]

\* httputil.DumpResponse(resp, true): status line, headers and body; a
\* body that cannot be read to its end is the dump's error.
DumpResponse(rs) ==
    IF rs.bodyFails
    THEN [err |-> << "unexpected EOF" >>, dump |-> << >>]
    ELSE [err |-> NilError,
          dump |-> << "HTTP/1.1 " >> \o rs.Status \o << "\r\n" >>
                   \o HeaderLines(rs.Header, HeaderOrder) \o << "\r\n" >> \o rs.Body]

-----------------------------------------------------------------------------
(* Decoding of error bodies *)

\* type ErrorResponse, zero value
ZeroErrorResponse == [ErrorCode |-> 0, ErrorMessage |-> << >>, Success |-> FALSE]

\* The run of digits of t that starts at i ends before this index.
RECURSIVE DigitsEnd(_, _)
DigitsEnd(t, i) ==
    IF i <= Len(t) /\ IsDigit(t[i]) THEN DigitsEnd(t, i + 1) ELSE i

\* The index of the first quote of t at or after i; 0 when there is none.
RECURSIVE QuoteAt(_, _)
QuoteAt(t, i) ==
    IF i > Len(t) THEN 0
    ELSE IF t[i] = "\"" THEN i
    ELSE QuoteAt(t, i + 1)

\* One JSON value of the token text t at i: its kind, its content and the
\* index after it.  Numbers are runs of digits, strings run from quote to
\* quote, the literals are single tokens.
JsonValue(t, i) ==
    IF i > Len(t) THEN [kind |-> "bad", text |-> << >>, next |-> i]
    ELSE IF IsDigit(t[i])
    THEN [kind |-> "number", text |-> SubSeq(t, i, DigitsEnd(t, i) - 1), next |-> DigitsEnd(t, i)]
    ELSE IF t[i] = "\""
    THEN LET q == QuoteAt(t, i + 1)
         IN  IF q = 0 THEN [kind |-> "bad", text |-> << >>, next |-> i]
             ELSE [kind |-> "string", text |-> SubSeq(t, i + 1, q - 1), next |-> q + 1]
    ELSE IF t[i] \in {"true", "false"}
    THEN [kind |-> "bool", text |-> << t[i] >>, next |-> i + 1]
    ELSE IF t[i] = "null"
    THEN [kind |-> "null", text |-> << >>, next |-> i + 1]
    ELSE [kind |-> "bad", text |-> << >>, next |-> i]

\* A decoded member stored into the ErrorResponse by its json tag: the
\* struct after it and whether the value had the wrong type for its field.
StoreMember(r, key, val) ==
    IF val.kind = "null" THEN [r |-> r, mismatch |-> FALSE]
    ELSE IF key = "\"error_code\""
    THEN IF val.kind = "number"
         THEN [r |-> [r EXCEPT !.ErrorCode = ParseNat(val.text, 0)], mismatch |-> FALSE]
         ELSE [r |-> r, mismatch |-> TRUE]
    ELSE IF key = "\"error_message\""
    THEN IF val.kind = "string"
         THEN [r |-> [r EXCEPT !.ErrorMessage = val.text], mismatch |-> FALSE]
         ELSE [r |-> r, mismatch |-> TRUE]
    ELSE IF key = "\"success\""
    THEN IF val.kind = "bool"
         THEN [r |-> [r EXCEPT !.Success = (val.text = << "true" >>)], mismatch |-> FALSE]
         ELSE [r |-> r, mismatch |-> TRUE]
    ELSE [r |-> r, mismatch |-> FALSE]

\* The members of an object from index i on (t[i] is a key), up to the
\* closing brace, which must end the text.
RECURSIVE JsonMembers(_, _, _, _)
JsonMembers(t, i, r, mismatch) ==
    IF i + 1 > Len(t) \/ t[i + 1] # ":"
    THEN [err |-> << "invalid character" >>, r |-> r]
    ELSE LET val == JsonValue(t, i + 2)
             st == StoreMember(r, t[i], val)
         IN  IF val.kind = "bad" \/ val.next > Len(t)
             THEN [err |-> << "unexpected end of JSON input" >>, r |-> st.r]
             ELSE IF t[val.next] = ","
             THEN JsonMembers(t, val.next + 1, st.r, mismatch \/ st.mismatch)
             ELSE IF t[val.next] = "}" /\ val.next = Len(t)
             THEN [err |-> IF mismatch \/ st.mismatch
                           THEN << "json: cannot unmarshal" >> ELSE NilError,
                   r |-> st.r]
             ELSE [err |-> << "invalid character" >>, r |-> st.r]

\* json.Unmarshal(respBody, &r) for r of type ErrorResponse
Unmarshal(t) ==
    IF t = << >> THEN [err |-> << "unexpected end of JSON input" >>, r |-> ZeroErrorResponse]
    ELSE IF t = << "null" >> THEN [err |-> NilError, r |-> ZeroErrorResponse]
    ELSE IF t[1] # "{"
    THEN [err |-> IF JsonValue(t, 1).kind # "bad" /\ JsonValue(t, 1).next = Len(t) + 1
                  THEN << "json: cannot unmarshal" >> ELSE << "invalid character" >>,
          r |-> ZeroErrorResponse]
    ELSE IF Len(t) = 1 THEN [err |-> << "unexpected end of JSON input" >>, r |-> ZeroErrorResponse]
    ELSE IF t[2] = "}"
    THEN [err |-> IF Len(t) = 2 THEN NilError ELSE << "invalid character" >>,
          r |-> ZeroErrorResponse]
    ELSE JsonMembers(t, 2, ZeroErrorResponse, FALSE)

-----------------------------------------------------------------------------
(* Error values *)

\* net/http: StatusBadRequest
StatusBadRequest == 400

\* Error() deciding on the message alone.
ErrorStringMessageOnly(e) ==
    IF e.Response.ErrorMessage # << >>
    THEN e.Response.ErrorMessage \o << " ", "(" >> \o Decimal(e.StatusCode) \o << ")" >>
    ELSE << "unknown error (" >> \o Decimal(e.StatusCode) \o << ")" >>

\* func (e Error) Error() string
ErrorString(e) ==
    IF e.Response.ErrorMessage # << >> /\ e.StatusCode > 0
    THEN e.Response.ErrorMessage \o << " ", "(" >> \o Decimal(e.StatusCode) \o << ")" >>
    ELSE << "unknown error (" >> \o Decimal(e.StatusCode) \o << ")" >>

-----------------------------------------------------------------------------
(* The verifying side (testSignature of the package's tests) *)

\* strings.Split(s, ", "): cur is the part being collected.
RECURSIVE SplitCommaSpace(_, _)
SplitCommaSpace(s, cur) ==
    IF s = << >> THEN << cur >>
    ELSE IF Len(s) >= 2 /\ s[1] = "," /\ s[2] = " "
    THEN << cur >> \o SplitCommaSpace(Drop(s, 2), << >>)
    ELSE SplitCommaSpace(Tail(s), cur \o << Head(s) >>)

\* The leading run of s without white space (the %s verb).
RECURSIVE Word(_)
Word(s) ==
    IF s = << >> \/ Head(s) = " " THEN << >> ELSE << Head(s) >> \o Word(Tail(s))

\* fmt.Sscanf(part, prefix + "%s", &v): n and the value scanned
ScanString(part, prefix) ==
    IF part # << >> /\ part[1] = prefix /\ Word(Tail(part)) # << >>
    THEN [n |-> 1, v |-> Word(Tail(part))]
    ELSE [n |-> 0, v |-> << >>]

\* fmt.Sscanf(part, prefix + "%d", &v): n and the integer scanned
ScanInt(part, prefix) ==
    IF part # << >> /\ part[1] = prefix /\ Len(part) >= 2 /\ IsDigit(part[2])
    THEN [n |-> 1, v |-> ParseNat(SubSeq(part, 2, DigitsEnd(part, 2) - 1), 0)]
    ELSE [n |-> 0, v |-> 0]

\* testSignature on a received request, with the shared secret: whether
\* the header parsed, the fields read from it and the signature the
\* server computes from what it received.
testSignature(rq, secret) ==
    LET authHeader == HeaderGet(rq.Header, "Authorization")
        authParts == SplitCommaSpace(authHeader, << >>)
    IN  IF Len(authParts) # 3
        THEN [parsed |-> FALSE, apiKey |-> << >>, signature |-> << >>, nonce |-> 0,
              reqSignature |-> << >>]
        ELSE LET k == ScanString(authParts[1], "APIKey=")
                 g == ScanString(authParts[2], "Signature=")
                 n == ScanInt(authParts[3], "Nonce=")
                 message == rq.Method \o rq.Path \o Decimal(n.v)
                 signed == IF HasBody(rq.Method) THEN message \o rq.Body ELSE message
             IN  [parsed |-> k.n = 1 /\ g.n = 1 /\ n.n = 1,
                  apiKey |-> k.v, signature |-> g.v, nonce |-> n.v,
                  reqSignature |-> HmacHex(secret, signed)]

-----------------------------------------------------------------------------
(* doRequest up to the transport call *)

\* doRequest, the reads under c.mutex.RLock()
Snapshot(c) ==
    [apiKey |-> c.apiKey, apiSecret |-> c.apiSecret, baseUrl |-> c.baseUrl,
     debug |-> c.debug, userAgent |-> c.userAgent, apiHeaders |-> c.headers]

NoSnapshot == Snapshot(NilClient)

\* CombineHeaders copying the call's headers first and the client's over them.
CombineHeadersDefaultsWin(apiHeaders, headers) ==
    [k \in (DOMAIN apiHeaders) \cup (DOMAIN headers) |->
        IF k \in DOMAIN apiHeaders THEN apiHeaders[k] ELSE headers[k]]

\* doRequest, combinedHeaders: the client's headers, then the call's.
CombineHeaders(apiHeaders, headers) ==
    [k \in (DOMAIN apiHeaders) \cup (DOMAIN headers) |->
        IF k \in DOMAIN headers THEN headers[k] ELSE apiHeaders[k]]

NoURL == [err |-> NilError, Host |-> << >>, Path |-> << >>, RawQuery |-> << >>]

NoRequest == [Method |-> << >>, URL |-> NoURL, Header |-> EmptyHeader, Body |-> NoReader]

NoSign == [fed |-> << >>, signature |-> << >>]

\* RequestHeader setting Authorization only when the merged headers hold none.
RequestHeaderKeepsAuthorization(s, combined, signature, now) ==
    LET h1 == IF HeaderGet(combined, "Authorization") = << >>
              THEN HeaderSet(combined, "Authorization",
                             AuthorizationValue(s.apiKey, signature, now))
              ELSE combined
        h2 == IF s.userAgent # << >> THEN HeaderSet(h1, "User-Agent", s.userAgent) ELSE h1
    IN  IF HeaderGet(h2, "Content-Type") = << >>
        THEN HeaderSet(h2, "Content-Type", << "application/json" >>)
        ELSE h2

\* doRequest, the Authorization, User-Agent and Content-Type headers
RequestHeader(s, combined, signature, now) ==
    LET h1 == HeaderSet(combined, "Authorization",
                        AuthorizationValue(s.apiKey, signature, now))
        h2 == IF s.userAgent # << >> THEN HeaderSet(h1, "User-Agent", s.userAgent) ELSE h1
    IN  IF HeaderGet(h2, "Content-Type") = << >>
        THEN HeaderSet(h2, "Content-Type", << "application/json" >>)
        ELSE h2

\* The header maps a call has at hand, as objects: the client's default map
\* (api), the caller's map (call) and the map doRequest makes and fills from
\* the two (combined).  Copying an entry copies the reference to its value
\* list; Header.Set later puts a new list under the key of the map it is
\* called on and changes no list in place.
MergedMaps(apiHeaders, headers) ==
    [api |-> apiHeaders, call |-> headers,
     combined |-> CombineHeaders(apiHeaders, headers)]

NoMaps == MergedMaps(EmptyHeader, EmptyHeader)

\* The request given the caller's own map as its header map.
RequestHeaderMapIsCallers == "call"

\* req.Header = combinedHeaders: the map the request's headers are set on.
RequestHeaderMap == "combined"

\* doRequest from its start to the request dump: the error it returns
\* early (nil when the request is ready for the transport), the request,
\* what was signed, the text logged and the caller's stream afterwards.
Prepare(s, method, endpoint, body, headers, now, ctxState) ==
    LET nb == NormalizeBody(method, body)
        u == UrlParse(s.baseUrl \o endpoint)
        url == [u EXCEPT !.RawQuery = QueryEncode]
        sg == Sign(s.apiSecret, method, url.Path, now, nb.bodyBytes)
        maps0 == MergedMaps(s.apiHeaders, headers)
        maps1 == [maps0 EXCEPT ![RequestHeaderMap] =
                     RequestHeader(s, maps0[RequestHeaderMap], sg.signature, now)]
        rq == [Method |-> method, URL |-> url, Header |-> maps1[RequestHeaderMap],
               Body |-> nb.reqBody]
        d == DumpRequestOut(rq, ctxState)
        stop(e, maps) == [err |-> e, req |-> NoRequest, sign |-> NoSign,
                          logged |-> << >>, source |-> nb.source, maps |-> maps]
    IN  IF nb.err # NilError THEN stop(nb.err, maps0)
        ELSE IF u.err # NilError
        THEN stop(<< "ZeroGate request creation failed" >> \o u.err, maps0)
        ELSE IF ~s.debug
        THEN [err |-> NilError, req |-> rq, sign |-> sg, logged |-> << >>,
              source |-> nb.source, maps |-> maps1]
        ELSE IF d.err # NilError THEN stop(d.err, maps1)
        ELSE [err |-> NilError, req |-> d.req, sign |-> sg,
              logged |-> Redact(d.dump, << s.apiKey, s.apiSecret >>),
              source |-> nb.source, maps |-> maps1]

\* What client.Do puts on the wire for the request, as the server's
\* handler sees it: method, URL path, headers and the body read to its end.
Transmit(rq) ==
    [Method |-> rq.Method,
     Path |-> UrlParse(RequestURI(rq.URL)).Path,
     Header |-> rq.Header,
     Body |-> IF rq.Body.set THEN ReadAll(rq.Body).bytes ELSE << >>]

NoWire == [Method |-> << >>, Path |-> << >>, Header |-> EmptyHeader, Body |-> << >>]

-----------------------------------------------------------------------------
(* doRequest after the transport call *)

NoResponse ==
    [StatusCode |-> 0, Status |-> << >>, Header |-> EmptyHeader, Body |-> << >>,
     bodyFails |-> FALSE]

JsonHeader == [k \in {"Content-Type"} |-> << << "application/json" >> >>]

\* Answers of the server to a client with snapshot s.  bodyFails: the
\* connection breaks while the body is read.
Responses(s) ==
    { [StatusCode |-> 200, Status |-> << "200 OK" >>, Header |-> JsonHeader,
       Body |-> << "{", "\"success\"", ":", "true", "}" >>, bodyFails |-> FALSE],
      [StatusCode |-> 200, Status |-> << "200 OK" >>,
       Header |-> [k \in {"X-Echo"} |-> << s.apiKey >>],
       Body |-> << "x" >> \o s.apiSecret, bodyFails |-> FALSE],
      [StatusCode |-> 200, Status |-> << "200 OK" >>, Header |-> JsonHeader,
       Body |-> << "{" >>, bodyFails |-> TRUE],
      [StatusCode |-> 399, Status |-> << "399 " >>, Header |-> EmptyHeader,
       Body |-> << >>, bodyFails |-> FALSE],
      [StatusCode |-> 400, Status |-> << "400 Bad Request" >>, Header |-> JsonHeader,
       Body |-> << "{", "}" >>, bodyFails |-> FALSE],
      [StatusCode |-> 404, Status |-> << "404 Not Found" >>, Header |-> JsonHeader,
       Body |-> << "{", "\"success\"", ":", "false", ",",
                   "\"error_code\"", ":", "4", "0", "4", ",",
                   "\"error_message\"", ":",
                   "\"", "n", "o", "t", " ", "f", "o", "u", "n", "d", "\"", "}" >>,
       bodyFails |-> FALSE],
      [StatusCode |-> 404, Status |-> << "404 Not Found" >>, Header |-> JsonHeader,
       Body |-> << "{", "\"error_code\"", ":" >>, bodyFails |-> FALSE],
      [StatusCode |-> 404, Status |-> << "404 Not Found" >>, Header |-> JsonHeader,
       Body |-> << "{" >>, bodyFails |-> TRUE],
      [StatusCode |-> 500, Status |-> << "500 Internal Server Error" >>,
       Header |-> JsonHeader,
       Body |-> << "{", "\"error_code\"", ":", "\"", "x", "\"", ",",
                   "\"error_message\"", ":", "\"" >> \o s.apiKey \o << "\"", "}" >>,
       bodyFails |-> FALSE] }

\* type APIResponse; set = FALSE stands for the nil *APIResponse
NilAPIResponse ==
    [set |-> FALSE, Body |-> << >>, Status |-> << >>, StatusCode |-> 0,
     Headers |-> EmptyHeader]

\* type Error; set = FALSE when the returned error is not an *Error
NoErrorValue == [set |-> FALSE, StatusCode |-> 0, Response |-> ZeroErrorResponse]

\* The error chain of a returned *Error
IsAPIError == << "*zerogate.Error" >>

\* Classify treating only the statuses above 400 as errors.
ClassifyAbove(debug, rs) ==
    LET d == DumpResponse(rs)
        u == Unmarshal(rs.Body)
        fail(e, logged) == [result |-> NilAPIResponse, err |-> e,
                            errValue |-> NoErrorValue, logged |-> logged]
        logged == IF debug THEN d.dump ELSE << >>
    IN  IF debug /\ d.err # NilError THEN fail(d.err, << >>)
        ELSE IF rs.bodyFails
        THEN fail(<< "response read failed", "unexpected EOF" >>, logged)
        ELSE IF rs.StatusCode > StatusBadRequest
        THEN IF u.err # NilError
             THEN fail(<< "failed to unmarshal response body" >> \o u.err, logged)
             ELSE [result |-> NilAPIResponse, err |-> IsAPIError,
                   errValue |-> [set |-> TRUE, StatusCode |-> rs.StatusCode,
                                 Response |-> u.r],
                   logged |-> logged]
        ELSE [result |-> [set |-> TRUE, Body |-> rs.Body, Status |-> rs.Status,
                          StatusCode |-> rs.StatusCode, Headers |-> rs.Header],
              err |-> NilError, errValue |-> NoErrorValue, logged |-> logged]

\* doRequest from the transport's answer to its return: the response dump
\* (debug), the read of the body, and the split on the status code.
Classify(debug, rs) ==
    LET d == DumpResponse(rs)
        u == Unmarshal(rs.Body)
        fail(e, logged) == [result |-> NilAPIResponse, err |-> e,
                            errValue |-> NoErrorValue, logged |-> logged]
        logged == IF debug THEN d.dump ELSE << >>
    IN  IF debug /\ d.err # NilError THEN fail(d.err, << >>)
        ELSE IF rs.bodyFails
        THEN fail(<< "response read failed", "unexpected EOF" >>, logged)
        ELSE IF rs.StatusCode >= StatusBadRequest
        THEN IF u.err # NilError
             THEN fail(<< "failed to unmarshal response body" >> \o u.err, logged)
             ELSE [result |-> NilAPIResponse, err |-> IsAPIError,
                   errValue |-> [set |-> TRUE, StatusCode |-> rs.StatusCode,
                                 Response |-> u.r],
                   logged |-> logged]
        ELSE [result |-> [set |-> TRUE, Body |-> rs.Body, Status |-> rs.Status,
                          StatusCode |-> rs.StatusCode, Headers |-> rs.Header],
              err |-> NilError, errValue |-> NoErrorValue, logged |-> logged]

-----------------------------------------------------------------------------
(* State *)

VARIABLES
    client,         \* the Client New returned (NilClient: none)
    ret,            \* the last call of New: its arguments and what it returned
    pc,             \* where the doRequest call is: idle, built, inflight, returned
    args,           \* the arguments of the doRequest call
    snap,           \* its snapshot of the client's fields
    req,            \* the *http.Request it built
    sign,           \* what it wrote to the HMAC, and the signature
    ctx,            \* its context: live, or the error the context ended with
    source,         \* the caller's body stream as the call left it
    log,            \* the text logged by the call: request dump, response dump
    wire,           \* the request as handed to the transport and received
    transport,      \* the *http.Client the call used
    transportCalls, \* how often the call invoked the transport
    resp,           \* the transport's answer
    result,         \* the *APIResponse doRequest returned
    err,            \* the error doRequest returned
    errValue,       \* the *Error behind err, when it is one
    shown,          \* an Error value and the text Error() gave for it
    mutex,          \* Client.mutex: the read locks held, and the write lock
    configs,        \* the values the client has had during the call's first
                    \* read-lock section, and from there to the transport call
    sets,           \* option setters called on the client during the call
    headerMaps      \* the header maps of the call as the call has left them

vars ==
    << client, ret, pc, args, snap, req, sign, ctx, source, log, wire, transport,
       transportCalls, resp, result, err, errValue, shown, mutex, configs, sets,
       headerMaps >>

\* sync.RWMutex, unlocked
Unlocked == [readers |-> 0, writer |-> FALSE]

NoConfigs == [locked |-> {}, call |-> {}]

\* The variables of the lock and of the setters.
conc == << mutex, configs, sets >>

NoRet == [called |-> FALSE, key |-> << >>, secret |-> << >>, opts |-> << >>,
          err |-> NilError, applied |-> 0]

NoArgs == [method |-> << >>, endpoint |-> << >>, body |-> BodyNil,
           headers |-> EmptyHeader, now |-> 0, ctx |-> "live"]

NoLog == [request |-> << >>, response |-> << >>]

NoShown == [e |-> NoErrorValue, text |-> << >>]

Nonces == (10 - MaxNonceStep)..10

CtxErrors == { "context canceled", "context deadline exceeded" }

\* No doRequest call has been made on the client.
CallReset ==
    /\ pc' = "idle"
    /\ args' = NoArgs
    /\ snap' = NoSnapshot
    /\ req' = NoRequest
    /\ sign' = NoSign
    /\ ctx' = "live"
    /\ source' = NoReader
    /\ log' = NoLog
    /\ wire' = NoWire
    /\ transport' = "nil"
    /\ transportCalls' = 0
    /\ resp' = NoResponse
    /\ result' = NilAPIResponse
    /\ err' = NilError
    /\ errValue' = NoErrorValue
    /\ shown' = NoShown
    /\ mutex' = Unlocked
    /\ configs' = NoConfigs
    /\ sets' = 0
    /\ headerMaps' = NoMaps

Init ==
    /\ client = NilClient
    /\ ret = NoRet
    /\ pc = "idle"
    /\ args = NoArgs
    /\ snap = NoSnapshot
    /\ req = NoRequest
    /\ sign = NoSign
    /\ ctx = "live"
    /\ source = NoReader
    /\ log = NoLog
    /\ wire = NoWire
    /\ transport = "nil"
    /\ transportCalls = 0
    /\ resp = NoResponse
    /\ result = NilAPIResponse
    /\ err = NilError
    /\ errValue = NoErrorValue
    /\ shown = NoShown
    /\ mutex = Unlocked
    /\ configs = NoConfigs
    /\ sets = 0
    /\ headerMaps = NoMaps

-----------------------------------------------------------------------------
(* Actions *)

\* client, err := New(key, secret, opts...): the program constructs its
\* client.  The model follows this one call and the client it returns.
NewCall(key, secret, opts) ==
    /\ pc = "idle"
    /\ ~ret.called
    /\ ~client.made
    /\ LET r == New(key, secret, opts)
       IN  /\ client' = r.client
           /\ ret' = [called |-> TRUE, key |-> key, secret |-> secret, opts |-> opts,
                      err |-> r.err, applied |-> r.applied]
    /\ CallReset

\* c.doRequest(ctx, method, endpoint, nil, body, headers) is called and takes
\* the read lock (c.mutex.RLock()).  now is time.Now().Unix() as the call
\* will read it; ctx0 is the state of ctx.
DoRequest(method, endpoint, body, headers, now, ctx0) ==
    /\ pc = "idle"
    /\ client.made
    /\ ~mutex.writer
    /\ pc' = "locked"
    /\ args' = [method |-> method, endpoint |-> endpoint, body |-> body,
                headers |-> headers, now |-> now, ctx |-> ctx0]
    /\ ctx' = ctx0
    /\ ret' = NoRet
    /\ mutex' = [mutex EXCEPT !.readers = @ + 1]
    /\ configs' = [locked |-> {client}, call |-> {client}]
    /\ UNCHANGED << client, snap, req, sign, source, log, wire, transport,
                    transportCalls, resp, result, err, errValue, shown, sets,
                    headerMaps >>

\* The snapshots the reads under the read lock can give: each field read is
\* a value the field has had while the lock was held (with a setter writing
\* the field meanwhile, the read gives the value before or after the write).
\* apiKey, apiSecret and userAgent are never written after construction.
RacySnapshots(held) ==
    { [Snapshot(c) EXCEPT !.baseUrl = cb.baseUrl, !.debug = cd.debug,
                          !.apiHeaders = ch.headers] :
        c \in {client}, cb \in held, cd \in held, ch \in held }

\* doRequest from the reads under the read lock (giving snapshot s) and
\* c.mutex.RUnlock() to the point where the request is ready for the
\* transport, or the call has returned an error.
PrepareRequest(s) ==
    /\ pc = "locked"
    /\ LET p == Prepare(s, args.method, args.endpoint, args.body, args.headers,
                        args.now, ctx)
       IN  /\ snap' = s
           /\ req' = p.req
           /\ sign' = p.sign
           /\ source' = p.source
           /\ log' = [request |-> p.logged, response |-> << >>]
           /\ err' = p.err
           /\ headerMaps' = p.maps
           /\ pc' = IF p.err = NilError THEN "built" ELSE "returned"
    /\ mutex' = [mutex EXCEPT !.readers = @ - 1]
    /\ configs' = [configs EXCEPT !.locked = {}]
    /\ UNCHANGED << client, ret, args, ctx, wire, transport, transportCalls, resp,
                    result, errValue, shown, sets >>

\* opt(client) for an Option opt, called on the constructed client by
\* another goroutine: the option writes its field; it takes no lock.
SetOption(o) ==
    /\ client.made
    /\ sets < MaxSets
    /\ client' = ApplyOption(client, o).client
    /\ sets' = sets + 1
    /\ configs' = [locked |-> IF pc = "locked" THEN configs.locked \cup {client'}
                              ELSE configs.locked,
                   call |-> IF pc \in {"locked", "built"} THEN configs.call \cup {client'}
                            ELSE configs.call]
    /\ UNCHANGED << ret, pc, args, snap, req, sign, ctx, source, log, wire, transport,
                    transportCalls, resp, result, err, errValue, shown, mutex,
                    headerMaps >>

\* The context of the call in progress is cancelled or reaches its deadline.
CtxDone(e) ==
    /\ pc = "inflight"
    /\ ctx = "live"
    /\ ctx' = e
    /\ UNCHANGED << client, ret, pc, args, snap, req, sign, source, log, wire,
                    transport, transportCalls, resp, result, err, errValue, shown >>
    /\ UNCHANGED << conc, headerMaps >>

\* client := c.getClient(); client.Do(req): getClient takes the read lock,
\* copies *c.httpClient and releases the lock; the request goes to the copy.
Send ==
    /\ pc = "built"
    /\ ~mutex.writer
    /\ pc' = "inflight"
    /\ transport' = client.httpClient
    /\ transportCalls' = transportCalls + 1
    /\ wire' = Transmit(req)
    /\ UNCHANGED << client, ret, args, snap, req, sign, ctx, source, log, resp,
                    result, err, errValue, shown >>
    /\ UNCHANGED << conc, headerMaps >>

\* TransportRespond with a call that waits for the answer whatever has
\* become of its context.
TransportRespondIgnoringContext(rs) ==
    /\ pc = "inflight"
    /\ LET c == Classify(snap.debug, rs)
       IN  /\ result' = c.result
           /\ err' = c.err
           /\ errValue' = c.errValue
           /\ log' = [log EXCEPT !.response = c.logged]
    /\ resp' = rs
    /\ pc' = "returned"
    /\ UNCHANGED << client, ret, args, snap, req, sign, ctx, source, wire, transport,
                    transportCalls, shown >>
    /\ UNCHANGED << conc, headerMaps >>

\* The transport answers before the context is done; doRequest runs to its
\* return.
TransportRespond(rs) ==
    /\ pc = "inflight"
    /\ ctx = "live"
    /\ LET c == Classify(snap.debug, rs)
       IN  /\ result' = c.result
           /\ err' = c.err
           /\ errValue' = c.errValue
           /\ log' = [log EXCEPT !.response = c.logged]
    /\ resp' = rs
    /\ pc' = "returned"
    /\ UNCHANGED << client, ret, args, snap, req, sign, ctx, source, wire, transport,
                    transportCalls, shown >>
    /\ UNCHANGED << conc, headerMaps >>

\* TransportFail with a call that sends its request again after the failure.
TransportFailRetried ==
    /\ pc = "inflight"
    /\ ctx = "live"
    /\ pc' = "built"
    /\ UNCHANGED << client, ret, args, snap, req, sign, ctx, source, log, wire,
                    transport, transportCalls, resp, result, err, errValue, shown >>
    /\ UNCHANGED << conc, headerMaps >>

\* The transport fails (no connection, ...) before the context is done.
TransportFail ==
    /\ pc = "inflight"
    /\ ctx = "live"
    /\ err' = << "ZeroGate request failed", "dial tcp: connection refused" >>
    /\ pc' = "returned"
    /\ UNCHANGED << client, ret, args, snap, req, sign, ctx, source, log, wire,
                    transport, transportCalls, resp, result, errValue, shown >>
    /\ UNCHANGED << conc, headerMaps >>

\* The transport gives up because the request's context is done: Do returns
\* the context's error, which doRequest wraps.
TransportAbort ==
    /\ pc = "inflight"
    /\ ctx # "live"
    /\ err' = << "ZeroGate request failed", ctx >>
    /\ pc' = "returned"
    /\ UNCHANGED << client, ret, args, snap, req, sign, ctx, source, log, wire,
                    transport, transportCalls, resp, result, errValue, shown >>
    /\ UNCHANGED << conc, headerMaps >>

\* The caller is done with what doRequest returned; the client is free for
\* the next call.
Finish ==
    /\ pc = "returned"
    /\ CallReset
    /\ UNCHANGED << client, ret >>

\* The caller asks the *Error doRequest returned for its text.
ErrorMethod ==
    /\ pc = "returned"
    /\ errValue.set
    /\ shown.e # errValue
    /\ shown' = [e |-> errValue, text |-> ErrorString(errValue)]
    /\ UNCHANGED << client, ret, pc, args, snap, req, sign, ctx, source, log, wire,
                    transport, transportCalls, resp, result, err, errValue >>
    /\ UNCHANGED << conc, headerMaps >>

Next ==
    \/ \E key \in Keys, secret \in Secrets, opts \in OptionLists :
           NewCall(key, secret, opts)
    \/ \E method \in Methods, endpoint \in Endpoints, body \in BodyValues(client),
          headers \in CallHeaders, now \in Nonces, ctx0 \in {"live", "context canceled"} :
           DoRequest(method, endpoint, body, headers, now, ctx0)
    \/ \E s \in RacySnapshots(configs.locked) : PrepareRequest(s)
    \/ \E e \in CtxErrors : CtxDone(e)
    \/ Send
    \/ \E rs \in Responses(snap) : TransportRespond(rs)
    \/ TransportFail
    \/ TransportAbort
    \/ ErrorMethod
    \/ Finish

Spec == Init /\ [][Next]_vars

\* The goroutine that runs doRequest goes on to call the transport, and the
\* transport gives up a request whose context is done.
LiveSpec == Spec /\ WF_vars(Send) /\ WF_vars(TransportAbort)

\* The client shared by a goroutine making calls and one calling option
\* setters on it.
ConcNext ==
    \/ NewCall(<< "k", "y" >>, << "s", "c" >>, << >>)
    \/ \E method \in { MethodGet, MethodPost }, headers \in { EmptyHeader } :
           DoRequest(method, << "/", "t" >>, BodyNil, headers, 10, "live")
    \/ \E s \in RacySnapshots(configs.locked) : PrepareRequest(s)
    \/ \E o \in Options : SetOption(o)
    \/ Send
    \/ \E rs \in Responses(snap) : TransportRespond(rs)
    \/ TransportFail
    \/ Finish

ConcSpec == Init /\ [][ConcNext]_vars

-----------------------------------------------------------------------------
(* Error.Error on its own *)

\* Error values a caller can hold (the type and its fields are exported).
ErrorValues ==
    { [set |-> TRUE, StatusCode |-> c,
       Response |-> [ErrorCode |-> k, ErrorMessage |-> m, Success |-> b]] :
        c \in {0 - 1, 0, 1, 9, 10, 404, 500},
        k \in {0, 404},
        m \in { << >>, << "x" >>, << "n", "o", "t", " ", "f", "o", "u", "n", "d" >> },
        b \in BOOLEAN }

ErrorInit ==
    /\ client = NilClient
    /\ ret = NoRet
    /\ pc = "idle"
    /\ args = NoArgs
    /\ snap = NoSnapshot
    /\ req = NoRequest
    /\ sign = NoSign
    /\ ctx = "live"
    /\ source = NoReader
    /\ log = NoLog
    /\ wire = NoWire
    /\ transport = "nil"
    /\ transportCalls = 0
    /\ resp = NoResponse
    /\ result = NilAPIResponse
    /\ err = NilError
    /\ errValue = NoErrorValue
    /\ \E e \in ErrorValues : shown = [e |-> e, text |-> << >>]
    /\ mutex = Unlocked
    /\ configs = NoConfigs
    /\ sets = 0
    /\ headerMaps = NoMaps

\* e.Error() for the Error value at hand
RenderError ==
    /\ shown.text = << >>
    /\ shown.e.set
    /\ shown' = [shown EXCEPT !.text = ErrorString(shown.e)]
    /\ UNCHANGED << client, ret, pc, args, snap, req, sign, ctx, source, log, wire,
                    transport, transportCalls, resp, result, err, errValue >>
    /\ UNCHANGED << conc, headerMaps >>

ErrorSpec == ErrorInit /\ [][RenderError]_vars

-----------------------------------------------------------------------------
(* Properties *)

\* The call has built its request (and has not been forgotten).
RequestBuilt == req # NoRequest

\* The call has handed its request to the transport.
Sent == transportCalls > 0

\* The bytes of the request body as the request holds them.
RequestBodyBytes == IF req.Body.set THEN ReadAll(req.Body).bytes ELSE << >>

\* The Signature field of an Authorization value.
SignatureField(auth) == ScanString(SplitCommaSpace(auth, << >>)[2], "Signature=").v

\* The byte sequence a POST/PUT body argument stands for.
BodyAsGiven(body) ==
    CASE body.kind = "nil" -> << "{", "}" >>
      [] body.kind = "struct" -> Marshal(body).bytes
      [] OTHER -> body.data

\* C1: for every method, the Signature field of the Authorization header
\* is the lowercase-hex HMAC, keyed by the client's secret, of
\* method ++ URL path ++ decimal(nonce) ++ (the body bytes for POST and PUT),
\* and the server recomputing it from the request it received agrees.
C1_SignatureIsHmacOfCanonicalMessage ==
    /\ RequestBuilt =>
         SignatureField(HeaderGet(req.Header, "Authorization"))
           = HmacHex(snap.apiSecret,
                     args.method \o req.URL.Path \o Decimal(args.now)
                     \o (IF HasBody(args.method) THEN RequestBodyBytes ELSE << >>))
    /\ Sent =>
         LET v == testSignature(wire, snap.apiSecret)
         IN  v.parsed /\ v.signature = v.reqSignature

C1_Witness ==
    /\ pc = "inflight"
    /\ args.method = MethodPost
    /\ args.body.kind = "struct"
    /\ snap.baseUrl = DefaultBaseUrl
    /\ testSignature(wire, snap.apiSecret).signature = sign.signature

\* C2: for POST and PUT, whatever form the body argument takes, the bytes
\* written to the HMAC after the message are exactly the bytes handed to
\* the transport as the body, and they are the bytes the argument stands
\* for ("{}" when absent).
C2_SignedBodyIsSentBody ==
    /\ (RequestBuilt /\ HasBody(args.method)) =>
         /\ Len(sign.fed) = 2
         /\ sign.fed[2] = RequestBodyBytes
         /\ sign.fed[2] = BodyAsGiven(args.body)
    /\ (Sent /\ HasBody(args.method)) => wire.Body = sign.fed[2]

C2_Witness ==
    /\ pc = "inflight"
    /\ args.method = MethodPut
    /\ args.body.kind = "reader"
    /\ snap.debug
    /\ wire.Body = << "x", "x" >>

\* C3: for GET and DELETE, whatever body argument was passed, what is
\* written to the HMAC is exactly method ++ path ++ decimal(nonce), and
\* nothing of the body.
C3_NoBodySignedForGetDelete ==
    (RequestBuilt /\ ~HasBody(args.method)) =>
        /\ sign.fed = << args.method \o req.URL.Path \o Decimal(args.now) >>
        /\ sign.signature
             = HmacHex(snap.apiSecret, args.method \o req.URL.Path \o Decimal(args.now))

C3_Witness ==
    /\ RequestBuilt
    /\ args.method = MethodDelete
    /\ args.body.kind = "bytes"
    /\ args.body.data # << >>

\* An option list with no failing option.
NoFailingOption(opts) == \A i \in 1..Len(opts) : opts[i].op # "Fail"

\* C4: New with an empty key or an empty secret returns the configuration
\* error and no client, applies no option and invokes no transport; with
\* both non-empty and no failing option it returns a client holding
\* exactly that key and secret.
C4_NewChecksCredentials ==
    ret.called =>
        /\ (ret.key = << >> \/ ret.secret = << >>) =>
              /\ ret.err = << errEmptyCredentials >>
              /\ client = NilClient
              /\ ret.applied = 0
              /\ transportCalls = 0
        /\ (ret.key # << >> /\ ret.secret # << >> /\ NoFailingOption(ret.opts)) =>
              /\ ret.err = NilError
              /\ client.made
              /\ client.apiKey = ret.key
              /\ client.apiSecret = ret.secret

C4_Witness ==
    /\ ret.called
    /\ ret.key # << >>
    /\ ret.secret = << >>
    /\ Len(ret.opts) = 2
    /\ ret.err = << errEmptyCredentials >>

\* C5: every request handed to the transport carries exactly one
\* Authorization value, "APIKey=<key>, Signature=<hex>, Nonce=<decimal>"
\* in this order, with the client's key and the nonce of the signed
\* message, whatever Authorization the call's or the client's headers held;
\* the server reads the same key and nonce back from it.
C5_AuthorizationHeaderFormat ==
    Sent =>
        /\ wire.Header["Authorization"]
             = << << "APIKey=" >> \o snap.apiKey \o << ",", " ", "Signature=" >>
                  \o sign.signature \o << ",", " ", "Nonce=" >> \o Decimal(args.now) >>
        /\ sign.fed[1] = args.method \o req.URL.Path \o Decimal(args.now)
        /\ testSignature(wire, snap.apiSecret).apiKey = snap.apiKey
        /\ testSignature(wire, snap.apiSecret).nonce = args.now

C5_Witness ==
    /\ Sent
    /\ "Authorization" \in DOMAIN args.headers
    /\ args.now = 10
    /\ HeaderGet(wire.Header, "Authorization") # HeaderGet(args.headers, "Authorization")


\* The messages of the errors doRequest returns before it has a request.
EarlyFailures ==
    { "error marshalling body to JSON", "error reading body",
      "ZeroGate request creation failed" }

\* C6 as stated: a call whose context is done (at its start already, or
\* before the transport completes) returns no APIResponse and the
\* context's error.
C6_ContextErrorWheneverContextDone ==
    (pc = "returned" /\ ctx # "live") => (~result.set /\ ErrorsIs(err, ctx))

\* C6, amended: a call whose context is done before the transport
\* completes (at the start of the call already, or while the request is in
\* flight) returns: it does not wait for the answer and returns no
\* APIResponse.  Its error is the context's error (errors.Is finds it),
\* unless the call failed before it had built its request (body
\* serialisation, body read, URL), and then it is that failure.
C6_CancelledCallReturnsContextError ==
    /\ []((pc = "returned" /\ ctx # "live") =>
            /\ ~result.set
            /\ resp = NoResponse
            /\ \/ ErrorsIs(err, ctx)
               \/ (~Sent /\ err # NilError /\ err[1] \in EarlyFailures))
    /\ \A e \in CtxErrors :
          (pc \in {"built", "inflight"} /\ ctx = e)
            ~> (pc = "returned" /\ ~result.set /\ ErrorsIs(err, e))

C6_Witness ==
    /\ pc = "returned"
    /\ Sent
    /\ ctx = "context deadline exceeded"
    /\ ErrorsIs(err, "context deadline exceeded")
    /\ ~result.set

\* C7: with debug on, the text logged for the outgoing request contains
\* neither the API key nor the API secret.
C7_RequestDumpHidesCredentials ==
    (snap.debug /\ log.request # << >>) =>
        /\ ~Contains(log.request, snap.apiKey)
        /\ ~Contains(log.request, snap.apiSecret)

\* C8: with debug on, the text logged for the incoming response contains
\* neither the API key nor the API secret, even when the server echoes them.
C8_ResponseDumpHidesCredentials ==
    (snap.debug /\ log.response # << >>) =>
        /\ ~Contains(log.response, snap.apiKey)
        /\ ~Contains(log.response, snap.apiSecret)

\* The transport has answered the call, which has returned.
Answered == pc = "returned" /\ resp # NoResponse

\* What doRequest returns for an answer whose body was read to its end.
DecidedByStatus ==
    /\ result.set # (err # NilError)
    /\ resp.StatusCode < 400 =>
          /\ result = [set |-> TRUE, Body |-> resp.Body, Status |-> resp.Status,
                       StatusCode |-> resp.StatusCode, Headers |-> resp.Header]
          /\ err = NilError
    /\ resp.StatusCode >= 400 =>
          /\ ~result.set
          /\ IF Unmarshal(resp.Body).err = NilError
             THEN /\ err = IsAPIError
                  /\ errValue = [set |-> TRUE, StatusCode |-> resp.StatusCode,
                                 Response |-> Unmarshal(resp.Body).r]
             ELSE /\ ~errValue.set
                  /\ err = << "failed to unmarshal response body" >>
                           \o Unmarshal(resp.Body).err
    /\ (resp.StatusCode = 404 /\ Len(resp.Body) > 3) =>
          /\ errValue.Response.ErrorCode = 404
          /\ errValue.Response.ErrorMessage
               = << "n", "o", "t", " ", "f", "o", "u", "n", "d" >>
          /\ ~errValue.Response.Success

\* C9 as stated: after the transport answers, the status alone decides
\* between an APIResponse (status < 400) and an error (status >= 400: the
\* decoded Error, or the parse failure).
C9_StatusAloneDecides == Answered => DecidedByStatus

\* C9, amended: after the transport answers, doRequest returns exactly one
\* of a result or an error; when the response body is read to its end the
\* status decides as stated, and when reading (or, with debug, dumping) it
\* fails, doRequest returns that failure and no APIResponse, whatever the
\* status.
C9_StatusDecidesOnceBodyIsRead ==
    Answered =>
        IF resp.bodyFails
        THEN /\ ~result.set
             /\ ~errValue.set
             /\ ErrorsIs(err, "unexpected EOF")
        ELSE DecidedByStatus

C9_Witness ==
    /\ Answered
    /\ resp.StatusCode = 404
    /\ errValue.set
    /\ errValue.Response.ErrorCode = 404
    /\ errValue.StatusCode = 404

\* The text "<message> (<status>)"
MessageAndStatus(e) ==
    e.Response.ErrorMessage \o << " ", "(" >> \o Decimal(e.StatusCode) \o << ")" >>

\* The text "unknown error (<status>)"
UnknownAndStatus(e) == << "unknown error (" >> \o Decimal(e.StatusCode) \o << ")" >>

\* C10 as stated: Error() gives "<message> (<status>)" whenever the message
\* is non-empty and "unknown error (<status>)" otherwise.
C10_MessageShownWheneverPresent ==
    shown.text # << >> =>
        shown.text = IF shown.e.Response.ErrorMessage # << >>
                     THEN MessageAndStatus(shown.e) ELSE UnknownAndStatus(shown.e)

\* C10, amended: Error() gives "<message> (<status>)" whenever the message
\* is non-empty and the status code is positive, and
\* "unknown error (<status>)" otherwise; status 404 with message
\* "not found" gives "not found (404)".
C10_MessageShownWhenPresentAndStatusPositive ==
    shown.text # << >> =>
        /\ shown.text = IF shown.e.Response.ErrorMessage # << >> /\ shown.e.StatusCode > 0
                        THEN MessageAndStatus(shown.e) ELSE UnknownAndStatus(shown.e)
        /\ (/\ shown.e.StatusCode = 404
            /\ shown.e.Response.ErrorMessage = << "n", "o", "t", " ", "f", "o", "u", "n", "d" >>)
             => shown.text = << "n", "o", "t", " ", "f", "o", "u", "n", "d",
                                " ", "(", "4", "0", "4", ")" >>

C10_Witness ==
    /\ shown.e.StatusCode = 0
    /\ shown.e.Response.ErrorMessage = << "x" >>
    /\ shown.text = << "unknown error (", "0", ")" >>


-----------------------------------------------------------------------------
(* Header merge *)

\* The header names doRequest writes itself after the merge.
SetByDoRequest == { "Authorization", "User-Agent", "Content-Type" }

\* The value list the merge gives header k: the call's when the call's map
\* holds k, the client's default otherwise.
MergedValue(k) ==
    IF k \in DOMAIN args.headers THEN args.headers[k] ELSE snap.apiHeaders[k]

MergedKeys == (DOMAIN snap.apiHeaders) \cup (DOMAIN args.headers)

\* Every header doRequest does not write itself goes to the transport as
\* the merge gives it, and no other header goes with them.
MergeReachesTransport ==
    /\ \A k \in MergedKeys \ SetByDoRequest :
          k \in DOMAIN wire.Header /\ wire.Header[k] = MergedValue(k)
    /\ DOMAIN wire.Header \subseteq MergedKeys \cup SetByDoRequest
    /\ "Content-Type" \in DOMAIN wire.Header

-----------------------------------------------------------------------------
(* User-Agent *)

\* C12: with a user-agent configured on the client, the request handed to the
\* transport carries the User-Agent the merge of default and call headers
\* gave when it gave one, and the configured user-agent only when it gave
\* none.
C12_UserAgentSetUnlessPresent ==
    (Sent /\ snap.userAgent # << >>) =>
        /\ "User-Agent" \in DOMAIN wire.Header
        /\ wire.Header["User-Agent"] =
              IF "User-Agent" \in MergedKeys THEN MergedValue("User-Agent")
              ELSE << snap.userAgent >>

-----------------------------------------------------------------------------
(* Locking *)

\* C13: once the call has gone to the transport, the base address, default
\* headers and debug flag it used and the transport it used are together the
\* configuration the client had at one moment of the call: there is one
\* value of the client, among those it has had since the call took its read
\* lock, that gives all four.
C13_ConfigurationReadAsOneSnapshot ==
    Sent =>
        \E c \in configs.call :
            /\ snap.baseUrl = c.baseUrl
            /\ snap.apiHeaders = c.headers
            /\ snap.debug = c.debug
            /\ transport = c.httpClient

\* C14: no step writes a configuration field of the constructed client
\* while a read lock on the client's mutex is held.
C14_SetterNeverWritesUnderReadLock ==
    [][(client.made /\ client' # client) => mutex.readers = 0]_vars

-----------------------------------------------------------------------------
(* Options at construction *)

\* The index of the first option of the list that fails; 0 when none does.
FirstFailing(opts) ==
    IF NoFailingOption(opts) THEN 0
    ELSE CHOOSE i \in 1..Len(opts) :
            opts[i].op = "Fail" /\ \A j \in 1..(i - 1) : opts[j].op # "Fail"

\* The index of the last option of the list that is an op; 0 when none is.
LastOf(opts, op) ==
    IF \A i \in 1..Len(opts) : opts[i].op # op THEN 0
    ELSE CHOOSE i \in 1..Len(opts) :
            opts[i].op = op /\ \A j \in (i + 1)..Len(opts) : opts[j].op # op

\* C15: New called with credentials.  With no failing option every option is
\* applied and each field of the returned client has the value of the last
\* option that sets it, or its default (the default transport, base URL,
\* debug off, no headers) when none does.  With a failing option the
\* options up to it are the only ones applied, and New returns its error
\* and no client.
C15_OptionsAppliedInOrder ==
    (ret.called /\ ret.key # << >> /\ ret.secret # << >>) =>
        LET opts == ret.opts
            f == FirstFailing(opts)
            b == LastOf(opts, "BaseURL")
            d == LastOf(opts, "Debug")
            h == LastOf(opts, "HTTPClient")
            m == LastOf(opts, "Headers")
        IN  IF f # 0
            THEN /\ ~client.made
                 /\ client = NilClient
                 /\ ErrorsIs(ret.err, "option failed")
                 /\ ret.applied = f
            ELSE /\ client.made
                 /\ ret.err = NilError
                 /\ ret.applied = Len(opts)
                 /\ client.baseUrl = IF b = 0 THEN DefaultBaseUrl ELSE opts[b].v
                 /\ client.debug = IF d = 0 THEN FALSE ELSE opts[d].v = << "true" >>
                 /\ client.httpClient = IF h = 0 THEN "DefaultClient" ELSE opts[h].v[1]
                 /\ client.headers = IF m = 0 THEN EmptyHeader ELSE DefaultHeaders

\* New was given Debug(true) and then Debug(false), and returned a client
\* with debug off and the default transport.
C15_Witness ==
    /\ ret.called
    /\ ret.opts = << [op |-> "Debug", v |-> << "true" >>],
                     [op |-> "Debug", v |-> << "false" >>] >>
    /\ client.made
    /\ ~client.debug
    /\ client.httpClient = "DefaultClient"

-----------------------------------------------------------------------------
(* The caller's body stream *)

\* The POST or PUT call was given a byte stream as its body.
StreamGiven == HasBody(args.method) /\ args.body.kind = "reader"

\* The call has read the stream: it is past the reads under the lock and the
\* body normalisation, at the transport or returned.
StreamRead == pc \in {"built", "inflight", "returned"}

\* C16: when a POST or PUT call given a byte stream has its request ready
\* for the transport, or has returned, the stream has been read to its end
\* and has been closed.
C16_StreamDrainedAndClosed ==
    (StreamGiven /\ StreamRead) =>
        /\ source.set
        /\ source.pos = Len(source.data)
        /\ source.closed

\* The part of C16 the code keeps: the stream has been read to its end.
StreamDrained ==
    (StreamGiven /\ StreamRead) => (source.set /\ source.pos = Len(source.data))

-----------------------------------------------------------------------------
(* One transport call, every failure returned *)

\* The call's arguments make it fail before it has a request to send: the
\* body cannot be serialized, the body stream cannot be read, the URL does
\* not parse, or (debug) the request cannot be dumped because the context is
\* already done.
FailsBeforeSending ==
    \/ HasBody(args.method) /\ args.body.kind = "chan"
    \/ HasBody(args.method) /\ args.body.kind = "reader" /\ args.body.fails
    \/ \E i \in 1..Len(args.endpoint) : args.endpoint[i] = "%"
    \/ snap.debug /\ args.ctx # "live"

\* C17: the transport is never invoked twice for a call.  A returned call
\* has invoked it zero times when it failed before sending and once
\* otherwise; it returns a result or an error, never both and never neither,
\* and a call that failed before sending or whose transport call failed
\* returns an error.
C17_TransportInvokedAtMostOnce ==
    /\ transportCalls <= 1
    /\ pc = "returned" =>
          /\ transportCalls = IF FailsBeforeSending THEN 0 ELSE 1
          /\ result.set <=> err = NilError
          /\ (FailsBeforeSending \/ resp = NoResponse) => (err # NilError /\ ~result.set)

\* The transport failed on the call's one request and the call returned
\* that failure.
C17_Witness ==
    /\ pc = "returned"
    /\ transportCalls = 1
    /\ resp = NoResponse
    /\ ctx = "live"
    /\ err # NilError
    /\ err[1] = "ZeroGate request failed"
    /\ ~result.set

-----------------------------------------------------------------------------
(* The header maps after a call *)

\* C18: once doRequest is past its header code (the request is ready, at the
\* transport, or the call has returned), the client's default header map
\* and the caller's header map hold the keys and values they held when the
\* call read them; what doRequest set is on the request only.
C18_HeaderMapsLeftUnchanged ==
    pc \in {"built", "inflight", "returned"} =>
        /\ headerMaps.call = args.headers
        /\ headerMaps.api = snap.apiHeaders
        /\ client.headers = snap.apiHeaders

\* A request was sent with an Authorization, a User-Agent and a Content-Type
\* the call set on it, none of which its caller's map or the client's
\* non-empty default map holds in that form.
C18_Witness ==
    /\ Sent
    /\ snap.apiHeaders = DefaultHeaders
    /\ "User-Agent" \in DOMAIN args.headers
    /\ "Authorization" \notin DOMAIN args.headers
    /\ "Authorization" \in DOMAIN wire.Header
    /\ wire.Header["User-Agent"] # args.headers["User-Agent"]
    /\ headerMaps.call = args.headers
    /\ headerMaps.api = DefaultHeaders

=============================================================================
